---------------------------- MODULE Spec2Model ----------------------------
(***************************************************************************)
(* State-machine model of the SHT25 driver (src/lib_SHT25.cpp,             *)
(* src/lib_SHT25.h).                                                       *)
(*                                                                         *)
(* The application thread executes the public operations statement by      *)
(* statement (variable pc); the two mbed Timeout callbacks                 *)
(* keepSafeTemperature / keepSafeHumidity run in interrupt context and     *)
(* may therefore fire between any two statements of the application        *)
(* thread.  The I2C bus is the environment: every write and every read is  *)
(* acknowledged or not, and an acknowledged read delivers three bytes.     *)
(*                                                                         *)
(* Besides the program state the model keeps history variables (op, pre,   *)
(* bus, ret, ev, lastRet, origin) that record what the calls did; the      *)
(* program never reads them.                                               *)
(***************************************************************************)
EXTENDS Integers, Sequences, FiniteSets

VARIABLES
    selfHeatTemperature,  \* bool  _selfHeatTemperature
    selfHeatHumidity,     \* bool  _selfHeatHumidity
    temperature,          \* float _temperature
    humidity,             \* float _humidity
    tPending,             \* Timeout _t holds an attached, not yet fired callback
    hPending,             \* Timeout _h holds an attached, not yet fired callback
    pc,                   \* statement the application thread executes next
    res,                  \* value a readTemperature()/readHumidity() in flight returns
    op,                   \* history: the public operation running or last run
    pre,                  \* history: state at the entry of that operation
    bus,                  \* history: bus transfers issued by that operation
    ret,                  \* history: what that operation returned
    ev,                   \* history: per quantity, the last of call/refresh/fire
    lastRet,              \* history: per quantity, last value its getter returned
    origin                \* history: per quantity, what stored the cached value

vars == << selfHeatTemperature, selfHeatHumidity, temperature, humidity,
           tPending, hPending, pc, res, op, pre, bus, ret, ev, lastRet,
           origin >>

prog == << selfHeatTemperature, selfHeatHumidity, temperature, humidity,
           tPending, hPending >>

---------------------------------------------------------------------------
(* Protocol constants, lib_SHT25.h *)

SHT_TRIG_TEMP == 243
SHT_TRIG_RH == 245
SHT_WRITE_REG == 230
SHT_SOFT_RESET == 254
SHT_PREC_RH12T14 == 0
SHT_PREC_RH08T12 == 1
SHT_PREC_RH10T13 == 128
SHT_PREC_RH11T11 == 129

enum_sht_prec ==
    { SHT_PREC_RH12T14, SHT_PREC_RH08T12, SHT_PREC_RH10T13, SHT_PREC_RH11T11 }

---------------------------------------------------------------------------
(* Values of type float.  A number is kept exactly, as the integer         *)
(* value * 65536 * 100; NAN is the "no data" sentinel.                      *)

NAN == [nan |-> TRUE, v |-> 0]

Num(n) == [nan |-> FALSE, v |-> n]

(* Bitwise operators of C on non-negative int operands. *)
RECURSIVE BitAnd(_, _)
BitAnd(a, b) ==
    IF a = 0 \/ b = 0 THEN 0
    ELSE (a % 2) * (b % 2) + 2 * BitAnd(a \div 2, b \div 2)

RECURSIVE BitOr(_, _)
BitOr(a, b) ==
    IF a = 0 THEN b
    ELSE IF b = 0 THEN a
    ELSE (IF a % 2 = 1 \/ b % 2 = 1 THEN 1 ELSE 0)
         + 2 * BitOr(a \div 2, b \div 2)

(* Faulty variant: the two data bytes combined low byte first. *)
RawWord_swapped(rx) == BitAnd(BitOr(rx[2] * 256, rx[1]), 65532)

(* (((rx[0] << 8) | rx[1]) & 0xFFFC): the elements of rx are char, which   *)
(* is unsigned on the ARM targets mbed builds for, so each promotes to an  *)
(* int in 0..255.                                                          *)
RawWord(rx) == BitAnd(BitOr(rx[1] * 256, rx[2]), 65532)

(* Faulty variant: the two status bits are not masked off. *)
DecodeTemperature_unmasked(rx) ==
    Num(17572 * BitOr(rx[1] * 256, rx[2]) - 4685 * 65536)

(* Faulty variant: the gain of the humidity formula. *)
DecodeTemperature_rhgain(rx) == Num(12500 * RawWord(rx) - 4685 * 65536)

(* -46.85 + 175.72 * (w / 65536.0), scaled by 65536 * 100 *)
DecodeTemperature(rx) == Num(17572 * RawWord(rx) - 4685 * 65536)

(* -6.0 + 125.0 * (w / 65536.0), scaled by 65536 * 100 *)
DecodeHumidity(rx) == Num(12500 * RawWord(rx) - 600 * 65536)

---------------------------------------------------------------------------
(* The environment: what the bus may answer, and what callers may pass.    *)

RxData ==
    { <<99, 78, 90>>, <<255, 255, 255>> }

PrecisionArgs == enum_sht_prec \cup {2, 255}

(* Largest value of an element of rx (unsigned char). *)
UCHAR_MAX == 255

(* Every pair of data bytes the device can deliver, with two checksums. *)
AllRx == { <<b0, b1, ck>> : b0 \in 0..UCHAR_MAX, b1 \in 0..UCHAR_MAX, ck \in {0, 255} }

(* char rx[3] = {0xFF, 0xFF, 0xFF}: what rx holds when the read fails *)
RxInit == <<255, 255, 255>>

Write(bytes, ack) == [kind |-> "W", data |-> bytes, ack |-> ack]

Read(bytes, ack) == [kind |-> "R", data |-> bytes, ack |-> ack]

NoRet == [t |-> NAN, h |-> NAN, ok |-> FALSE]

Snapshot(arg) ==
    [selfT |-> selfHeatTemperature, selfH |-> selfHeatHumidity,
     temp |-> temperature, hum |-> humidity,
     evT |-> ev.T, evH |-> ev.H, lastT |-> lastRet.T, lastH |-> lastRet.H,
     afterWait |-> (op = "waitSafeHeat"), arg |-> arg]

(* History kept when a public operation is entered. *)
Enter(name, arg) ==
    /\ pc = "idle"
    /\ op' = name
    /\ pre' = Snapshot(arg)

---------------------------------------------------------------------------
(* SHT25::SHT25: softReset(), setPrecision(SHT_PREC_1214), then the cached *)
(* values are NAN and both flags true.  The two writes of the constructor  *)
(* are its bus log.  SHT_PREC_1214 is the RH 12 bit / T 14 bit default,    *)
(* which the header spells SHT_PREC_RH12T14 (0x00).                        *)

(* Faulty variant: the flags start unsafe, as if a cooldown were running. *)
Init_unsafe ==
    /\ selfHeatTemperature = FALSE
    /\ selfHeatHumidity = FALSE
    /\ temperature = NAN
    /\ humidity = NAN
    /\ tPending = FALSE
    /\ hPending = FALSE
    /\ pc = "idle"
    /\ res = NAN
    /\ op = "construct"
    /\ \E a1 \in BOOLEAN, a2 \in BOOLEAN :
          bus = << Write(<<SHT_SOFT_RESET>>, a1),
                   Write(<<SHT_WRITE_REG, SHT_PREC_RH12T14>>, a2) >>
    /\ pre = [selfT |-> FALSE, selfH |-> FALSE, temp |-> NAN, hum |-> NAN,
              evT |-> "none", evH |-> "none", lastT |-> NAN, lastH |-> NAN,
              afterWait |-> FALSE, arg |-> 0]
    /\ ret = NoRet
    /\ ev = [T |-> "none", H |-> "none"]
    /\ lastRet = [T |-> NAN, H |-> NAN]
    /\ origin = [T |-> "init", H |-> "init"]

Init ==
    /\ selfHeatTemperature = TRUE
    /\ selfHeatHumidity = TRUE
    /\ temperature = NAN
    /\ humidity = NAN
    /\ tPending = FALSE
    /\ hPending = FALSE
    /\ pc = "idle"
    /\ res = NAN
    /\ op = "construct"
    /\ \E a1 \in BOOLEAN, a2 \in BOOLEAN :
          bus = << Write(<<SHT_SOFT_RESET>>, a1),
                   Write(<<SHT_WRITE_REG, SHT_PREC_RH12T14>>, a2) >>
    /\ pre = [selfT |-> TRUE, selfH |-> TRUE, temp |-> NAN, hum |-> NAN,
              evT |-> "none", evH |-> "none", lastT |-> NAN, lastH |-> NAN,
              afterWait |-> FALSE, arg |-> 0]
    /\ ret = NoRet
    /\ ev = [T |-> "none", H |-> "none"]
    /\ lastRet = [T |-> NAN, H |-> NAN]
    /\ origin = [T |-> "init", H |-> "init"]

---------------------------------------------------------------------------
(* float SHT25::getTemperature(void) *)

(* Faulty variant: the flag is not consulted, every call measures. *)
getTemperature_if_always ==
    /\ Enter("getTemperature", 0)
    /\ ev' = [ev EXCEPT !.T = "getter"]
    /\ bus' = << >>
    /\ pc' = "gT_clear"
    /\ ret' = NoRet
    /\ UNCHANGED << prog, res, lastRet, origin >>

getTemperature_if ==
    /\ Enter("getTemperature", 0)
    /\ ev' = [ev EXCEPT !.T = "getter"]
    /\ bus' = << >>
    /\ IF selfHeatTemperature
       THEN /\ pc' = "gT_clear"
            /\ ret' = NoRet
            /\ UNCHANGED lastRet
       ELSE /\ pc' = "idle"
            /\ ret' = [NoRet EXCEPT !.t = temperature]
            /\ lastRet' = [lastRet EXCEPT !.T = temperature]
    /\ UNCHANGED << prog, res, origin >>

(* Faulty variant: the flag is left set while the Timeout is attached. *)
getTemperature_clear_skip ==
    /\ pc = "gT_clear"
    /\ pc' = "gT_attach"
    /\ UNCHANGED << prog, res, op, pre, bus, ret, ev, lastRet, origin >>

(* Faulty variant: the call clears the humidity flag as well. *)
getTemperature_clear_both ==
    /\ pc = "gT_clear"
    /\ selfHeatTemperature' = FALSE
    /\ selfHeatHumidity' = FALSE
    /\ pc' = "gT_attach"
    /\ UNCHANGED << temperature, humidity, tPending, hPending,
                    res, op, pre, bus, ret, ev, lastRet, origin >>

getTemperature_clear ==
    /\ pc = "gT_clear"
    /\ selfHeatTemperature' = FALSE
    /\ pc' = "gT_attach"
    /\ UNCHANGED << selfHeatHumidity, temperature, humidity, tPending, hPending,
                    res, op, pre, bus, ret, ev, lastRet, origin >>

getTemperature_attach ==
    /\ pc = "gT_attach"
    /\ tPending' = TRUE
    /\ pc' = "rT_write"
    /\ UNCHANGED << selfHeatTemperature, selfHeatHumidity, temperature, humidity,
                    hPending, res, op, pre, bus, ret, ev, lastRet, origin >>

getTemperature_store ==
    /\ pc = "gT_store"
    /\ temperature' = res
    /\ ret' = [ret EXCEPT !.t = res]
    /\ lastRet' = [lastRet EXCEPT !.T = res]
    /\ pc' = "idle"
    /\ UNCHANGED << selfHeatTemperature, selfHeatHumidity, humidity, tPending,
                    hPending, op, pre, bus, ev >>
    /\ res' = NAN
    /\ origin' = [origin EXCEPT !.T = "getter"]

---------------------------------------------------------------------------
(* float SHT25::readTemperature(void), called by getTemperature and by     *)
(* readData.                                                               *)

readTemperature_return == IF op = "getTemperature" THEN "gT_store" ELSE "rD_storeT"

(* Faulty variant: the read is issued whatever the write answered. *)
readTemperature_write_then_read ==
    /\ pc = "rT_write"
    /\ \E ack \in BOOLEAN :
          bus' = Append(bus, Write(<<SHT_TRIG_TEMP>>, ack))
    /\ pc' = "rT_read"
    /\ UNCHANGED << prog, res, op, pre, ret, ev, lastRet, origin >>

readTemperature_write ==
    /\ pc = "rT_write"
    /\ \E ack \in BOOLEAN :
          /\ bus' = Append(bus, Write(<<SHT_TRIG_TEMP>>, ack))
          /\ IF ack
             THEN pc' = "rT_read" /\ UNCHANGED res
             ELSE pc' = readTemperature_return /\ res' = NAN
    /\ UNCHANGED << prog, op, pre, ret, ev, lastRet, origin >>

(* The read of readTemperature(), the device delivering one of the byte     *)
(* triples of S when it acknowledges.                                      *)
readTemperature_readFrom(S) ==
    /\ pc = "rT_read"
    /\ \/ \E rx \in S :
             /\ bus' = Append(bus, Read(rx, TRUE))
             /\ res' = DecodeTemperature(rx)
       \/ /\ bus' = Append(bus, Read(RxInit, FALSE))
          /\ res' = NAN
    /\ pc' = readTemperature_return
    /\ UNCHANGED << prog, op, pre, ret, ev, lastRet, origin >>

readTemperature_read == readTemperature_readFrom(RxData)

---------------------------------------------------------------------------
(* float SHT25::getHumidity(void) *)

getHumidity_if ==
    /\ Enter("getHumidity", 0)
    /\ ev' = [ev EXCEPT !.H = "getter"]
    /\ bus' = << >>
    /\ IF selfHeatHumidity
       THEN /\ pc' = "gH_clear"
            /\ ret' = NoRet
            /\ UNCHANGED lastRet
       ELSE /\ pc' = "idle"
            /\ ret' = [NoRet EXCEPT !.h = humidity]
            /\ lastRet' = [lastRet EXCEPT !.H = humidity]
    /\ UNCHANGED << prog, res, origin >>

getHumidity_clear ==
    /\ pc = "gH_clear"
    /\ selfHeatHumidity' = FALSE
    /\ pc' = "gH_attach"
    /\ UNCHANGED << selfHeatTemperature, temperature, humidity, tPending, hPending,
                    res, op, pre, bus, ret, ev, lastRet, origin >>

getHumidity_attach ==
    /\ pc = "gH_attach"
    /\ hPending' = TRUE
    /\ pc' = "rH_write"
    /\ UNCHANGED << selfHeatTemperature, selfHeatHumidity, temperature, humidity,
                    tPending, res, op, pre, bus, ret, ev, lastRet, origin >>

getHumidity_store ==
    /\ pc = "gH_store"
    /\ humidity' = res
    /\ ret' = [ret EXCEPT !.h = res]
    /\ lastRet' = [lastRet EXCEPT !.H = res]
    /\ pc' = "idle"
    /\ UNCHANGED << selfHeatTemperature, selfHeatHumidity, temperature, tPending,
                    hPending, op, pre, bus, ev >>
    /\ res' = NAN
    /\ origin' = [origin EXCEPT !.H = "getter"]

---------------------------------------------------------------------------
(* float SHT25::readHumidity(void), called by getHumidity and by readData. *)

readHumidity_return == IF op = "getHumidity" THEN "gH_store" ELSE "rD_storeH"

readHumidity_write ==
    /\ pc = "rH_write"
    /\ \E ack \in BOOLEAN :
          /\ bus' = Append(bus, Write(<<SHT_TRIG_RH>>, ack))
          /\ IF ack
             THEN pc' = "rH_read" /\ UNCHANGED res
             ELSE pc' = readHumidity_return /\ res' = NAN
    /\ UNCHANGED << prog, op, pre, ret, ev, lastRet, origin >>

(* Faulty variant: the read is repeated until the device acknowledges. *)
readHumidity_readFrom_poll(S) ==
    /\ pc = "rH_read"
    /\ \/ \E rx \in S :
             /\ bus' = Append(bus, Read(rx, TRUE))
             /\ res' = DecodeHumidity(rx)
             /\ pc' = readHumidity_return
       \/ /\ bus' = Append(bus, Read(RxInit, FALSE))
          /\ res' = NAN
          /\ pc' = "rH_read"
    /\ UNCHANGED << prog, op, pre, ret, ev, lastRet, origin >>

(* The read of readHumidity(), the device delivering one of the byte     *)
(* triples of S when it acknowledges.                                      *)
readHumidity_readFrom(S) ==
    /\ pc = "rH_read"
    /\ \/ \E rx \in S :
             /\ bus' = Append(bus, Read(rx, TRUE))
             /\ res' = DecodeHumidity(rx)
       \/ /\ bus' = Append(bus, Read(RxInit, FALSE))
          /\ res' = NAN
    /\ pc' = readHumidity_return
    /\ UNCHANGED << prog, op, pre, ret, ev, lastRet, origin >>

readHumidity_read == readHumidity_readFrom(RxData)

---------------------------------------------------------------------------
(* void SHT25::getData(float *tempC, float *relHumidity) *)

(* Faulty variant: one safe flag is enough to refresh. *)
getData_if_either ==
    /\ Enter("getData", 0)
    /\ bus' = << >>
    /\ IF selfHeatTemperature \/ selfHeatHumidity
       THEN /\ pc' = "gD_clear"
            /\ ret' = NoRet
            /\ ev' = [T |-> "refresh", H |-> "refresh"]
       ELSE /\ pc' = "idle"
            /\ ret' = [NoRet EXCEPT !.t = temperature, !.h = humidity]
            /\ UNCHANGED ev
    /\ UNCHANGED << prog, res, lastRet, origin >>

getData_if ==
    /\ Enter("getData", 0)
    /\ bus' = << >>
    /\ IF selfHeatTemperature /\ selfHeatHumidity
       THEN /\ pc' = "gD_clear"
            /\ ret' = NoRet
            /\ ev' = [T |-> "refresh", H |-> "refresh"]
       ELSE /\ pc' = "idle"
            /\ ret' = [NoRet EXCEPT !.t = temperature, !.h = humidity]
            /\ UNCHANGED ev
    /\ UNCHANGED << prog, res, lastRet, origin >>

getData_clear ==
    /\ pc = "gD_clear"
    /\ selfHeatTemperature' = FALSE
    /\ selfHeatHumidity' = FALSE
    /\ pc' = "gD_attachT"
    /\ UNCHANGED << temperature, humidity, tPending, hPending,
                    res, op, pre, bus, ret, ev, lastRet, origin >>

getData_attachT ==
    /\ pc = "gD_attachT"
    /\ tPending' = TRUE
    /\ pc' = "gD_attachH"
    /\ UNCHANGED << selfHeatTemperature, selfHeatHumidity, temperature, humidity,
                    hPending, res, op, pre, bus, ret, ev, lastRet, origin >>

(* Faulty variant: getData() does not attach the humidity Timeout. *)
getData_attachH_skip ==
    /\ pc = "gD_attachH"
    /\ pc' = "rT_write"
    /\ UNCHANGED << prog, res, op, pre, bus, ret, ev, lastRet, origin >>

getData_attachH ==
    /\ pc = "gD_attachH"
    /\ hPending' = TRUE
    /\ pc' = "rT_write"
    /\ UNCHANGED << selfHeatTemperature, selfHeatHumidity, temperature, humidity,
                    tPending, res, op, pre, bus, ret, ev, lastRet, origin >>

(* void SHT25::readData(float *tempC, float *relHumidity) *)

(* Faulty variant: the refresh stores the humidity only. *)
readData_storeT_skip ==
    /\ pc = "rD_storeT"
    /\ ret' = [ret EXCEPT !.t = temperature]
    /\ pc' = "rH_write"
    /\ UNCHANGED << prog, op, pre, bus, ev, lastRet, origin >>
    /\ res' = NAN

readData_storeT ==
    /\ pc = "rD_storeT"
    /\ temperature' = res
    /\ ret' = [ret EXCEPT !.t = res]
    /\ pc' = "rH_write"
    /\ UNCHANGED << selfHeatTemperature, selfHeatHumidity, humidity, tPending,
                    hPending, op, pre, bus, ev, lastRet >>
    /\ res' = NAN
    /\ origin' = [origin EXCEPT !.T = "refresh"]

readData_storeH ==
    /\ pc = "rD_storeH"
    /\ humidity' = res
    /\ ret' = [ret EXCEPT !.h = res]
    /\ pc' = "idle"
    /\ UNCHANGED << selfHeatTemperature, selfHeatHumidity, temperature, tPending,
                    hPending, op, pre, bus, ev, lastRet >>
    /\ res' = NAN
    /\ origin' = [origin EXCEPT !.H = "refresh"]

---------------------------------------------------------------------------
(* bool SHT25::setPrecision(char precision): the call with its command   *)
(* buffer, the blocking write, and, when the write was acknowledged, the   *)
(* wait of SHT_WAIT_SET before true is returned.  The Timeout callbacks    *)
(* may fire between these statements, that is also during the wait.        *)

setPrecision ==
    \E precision \in PrecisionArgs :
        /\ Enter("setPrecision", precision)
        /\ bus' = << >>
        /\ ret' = NoRet
        /\ pc' = "sP_write"
        /\ UNCHANGED << prog, res, ev, lastRet, origin >>

(* Faulty variant: a new precision drops the cached samples. *)
setPrecision_write_invalidate ==
    /\ pc = "sP_write"
    /\ \E ack \in BOOLEAN :
          /\ bus' = Append(bus, Write(<<SHT_WRITE_REG, pre.arg>>, ack))
          /\ IF ack
             THEN pc' = "sP_wait" /\ UNCHANGED ret
             ELSE pc' = "idle" /\ ret' = [ret EXCEPT !.ok = FALSE]
    /\ temperature' = NAN
    /\ humidity' = NAN
    /\ UNCHANGED << selfHeatTemperature, selfHeatHumidity, tPending, hPending,
                    res, op, pre, ev, lastRet, origin >>

setPrecision_write ==
    /\ pc = "sP_write"
    /\ \E ack \in BOOLEAN :
          /\ bus' = Append(bus, Write(<<SHT_WRITE_REG, pre.arg>>, ack))
          /\ IF ack
             THEN pc' = "sP_wait" /\ UNCHANGED ret
             ELSE pc' = "idle" /\ ret' = [ret EXCEPT !.ok = FALSE]
    /\ UNCHANGED << prog, res, op, pre, ev, lastRet, origin >>

setPrecision_wait ==
    /\ pc = "sP_wait"
    /\ ret' = [ret EXCEPT !.ok = TRUE]
    /\ pc' = "idle"
    /\ UNCHANGED << prog, res, op, pre, bus, ev, lastRet, origin >>

(* bool SHT25::softReset(): call, blocking write, wait, return. *)

softReset ==
    /\ Enter("softReset", 0)
    /\ bus' = << >>
    /\ ret' = NoRet
    /\ pc' = "sR_write"
    /\ UNCHANGED << prog, res, ev, lastRet, origin >>

softReset_write ==
    /\ pc = "sR_write"
    /\ \E ack \in BOOLEAN :
          /\ bus' = Append(bus, Write(<<SHT_SOFT_RESET>>, ack))
          /\ IF ack
             THEN pc' = "sR_wait" /\ UNCHANGED ret
             ELSE pc' = "idle" /\ ret' = [ret EXCEPT !.ok = FALSE]
    /\ UNCHANGED << prog, res, op, pre, ev, lastRet, origin >>

softReset_wait ==
    /\ pc = "sR_wait"
    /\ ret' = [ret EXCEPT !.ok = TRUE]
    /\ pc' = "idle"
    /\ UNCHANGED << prog, res, op, pre, bus, ev, lastRet, origin >>

---------------------------------------------------------------------------
(* void SHT25::waitSafeHeat(void): one evaluation of the loop condition    *)
(* per step; while it holds the thread sleeps and evaluates it again.      *)

waitSafeHeat_enter ==
    /\ Enter("waitSafeHeat", 0)
    /\ bus' = << >>
    /\ ret' = NoRet
    /\ pc' = "wSH_while"
    /\ UNCHANGED << prog, res, ev, lastRet, origin >>

(* Faulty variant: the loop ends as soon as one flag is set. *)
waitSafeHeat_while_either ==
    /\ pc = "wSH_while"
    /\ IF ~selfHeatTemperature /\ ~selfHeatHumidity
       THEN pc' = "wSH_while"
       ELSE pc' = "idle"
    /\ UNCHANGED << prog, res, op, pre, bus, ret, ev, lastRet, origin >>

waitSafeHeat_while ==
    /\ pc = "wSH_while"
    /\ IF ~selfHeatTemperature \/ ~selfHeatHumidity
       THEN pc' = "wSH_while"
       ELSE pc' = "idle"
    /\ UNCHANGED << prog, res, op, pre, bus, ret, ev, lastRet, origin >>

---------------------------------------------------------------------------
(* The Timeout callbacks.  A pending Timeout fires once, at any point of   *)
(* the application thread, and runs its callback.                          *)

(* Faulty variant: the callback runs but does not set the flag. *)
keepSafeTemperature_noflag ==
    /\ tPending
    /\ tPending' = FALSE
    /\ ev' = [ev EXCEPT !.T = "fire"]
    /\ UNCHANGED << selfHeatTemperature, selfHeatHumidity, temperature, humidity,
                    hPending, pc, res, op, pre, bus, ret, lastRet, origin >>

(* Faulty variant: the temperature callback sets both flags. *)
keepSafeTemperature_both ==
    /\ tPending
    /\ tPending' = FALSE
    /\ selfHeatTemperature' = TRUE
    /\ selfHeatHumidity' = TRUE
    /\ ev' = [ev EXCEPT !.T = "fire"]
    /\ UNCHANGED << temperature, humidity, hPending,
                    pc, res, op, pre, bus, ret, lastRet, origin >>

keepSafeTemperature ==
    /\ tPending
    /\ tPending' = FALSE
    /\ selfHeatTemperature' = TRUE
    /\ ev' = [ev EXCEPT !.T = "fire"]
    /\ UNCHANGED << selfHeatHumidity, temperature, humidity, hPending,
                    pc, res, op, pre, bus, ret, lastRet, origin >>

keepSafeHumidity ==
    /\ hPending
    /\ hPending' = FALSE
    /\ selfHeatHumidity' = TRUE
    /\ ev' = [ev EXCEPT !.H = "fire"]
    /\ UNCHANGED << selfHeatTemperature, temperature, humidity, tPending,
                    pc, res, op, pre, bus, ret, lastRet, origin >>

---------------------------------------------------------------------------

Next ==
    \/ getTemperature_if
    \/ getTemperature_clear
    \/ getTemperature_attach
    \/ getTemperature_store
    \/ readTemperature_write
    \/ readTemperature_read
    \/ getHumidity_if
    \/ getHumidity_clear
    \/ getHumidity_attach
    \/ getHumidity_store
    \/ readHumidity_write
    \/ readHumidity_read
    \/ getData_if
    \/ getData_clear
    \/ getData_attachT
    \/ getData_attachH
    \/ readData_storeT
    \/ readData_storeH
    \/ setPrecision
    \/ setPrecision_write
    \/ setPrecision_wait
    \/ softReset
    \/ softReset_write
    \/ softReset_wait
    \/ waitSafeHeat_enter
    \/ waitSafeHeat_while
    \/ keepSafeTemperature
    \/ keepSafeHumidity

(* One measurement of one quantity right after construction, the device   *)
(* free to deliver any data bytes: the behaviours that exercise the        *)
(* transfer functions on every raw word.                                   *)
DecodeNext ==
    \/ op = "construct" /\ getTemperature_if
    \/ getTemperature_clear
    \/ getTemperature_attach
    \/ readTemperature_write
    \/ readTemperature_readFrom(AllRx)
    \/ getTemperature_store
    \/ op = "construct" /\ getHumidity_if
    \/ getHumidity_clear
    \/ getHumidity_attach
    \/ readHumidity_write
    \/ readHumidity_readFrom(AllRx)
    \/ getHumidity_store

DecodeSpec == Init /\ [][DecodeNext]_vars

Spec == Init /\ [][Next]_vars

(* The statements of the application thread inside a public operation. *)
ThreadStep ==
    \/ getTemperature_clear
    \/ getTemperature_attach
    \/ getTemperature_store
    \/ readTemperature_write
    \/ readTemperature_read
    \/ getHumidity_clear
    \/ getHumidity_attach
    \/ getHumidity_store
    \/ readHumidity_write
    \/ readHumidity_read
    \/ getData_clear
    \/ getData_attachT
    \/ getData_attachH
    \/ readData_storeT
    \/ readData_storeH
    \/ setPrecision_write
    \/ setPrecision_wait
    \/ softReset_write
    \/ softReset_wait
    \/ waitSafeHeat_while

(* The thread inside an operation keeps running, a bus transfer returns    *)
(* (acknowledged or not), and an attached Timeout fires after its delay.   *)
FairSpec ==
    /\ Spec
    /\ WF_vars(ThreadStep)
    /\ WF_vars(keepSafeTemperature)
    /\ WF_vars(keepSafeHumidity)

---------------------------------------------------------------------------
(* Reading the history of a call.                                          *)

Done(name) == pc = "idle" /\ op = name

IsTrigger(i, code) == bus[i].kind = "W" /\ bus[i].data = <<code>>

Triggers(code) == { i \in DOMAIN bus : IsTrigger(i, code) }

(* The measurement started by the trigger write bus[i] ended in failure. *)
FailedAt(i) ==
    \/ ~bus[i].ack
    \/ i + 1 \in DOMAIN bus /\ bus[i + 1].kind = "R" /\ ~bus[i + 1].ack

(* The measurement started by the trigger write bus[i] was acknowledged    *)
(* twice and delivered bus[i + 1].data.                                    *)
AnsweredAt(i) ==
    /\ bus[i].ack
    /\ i + 1 \in DOMAIN bus /\ bus[i + 1].kind = "R" /\ bus[i + 1].ack

Failed(code) == \E i \in Triggers(code) : FailedAt(i)

(* What the transfers on the bus say the measurement is worth. *)
OnBusTemperature ==
    IF \E i \in Triggers(SHT_TRIG_TEMP) : AnsweredAt(i)
    THEN LET i == CHOOSE j \in Triggers(SHT_TRIG_TEMP) : AnsweredAt(j)
         IN  DecodeTemperature(bus[i + 1].data)
    ELSE NAN

OnBusHumidity ==
    IF \E i \in Triggers(SHT_TRIG_RH) : AnsweredAt(i)
    THEN LET i == CHOOSE j \in Triggers(SHT_TRIG_RH) : AnsweredAt(j)
         IN  DecodeHumidity(bus[i + 1].data)
    ELSE NAN

---------------------------------------------------------------------------
(* C1: a getter called again, with no firing of its quantity's timer (and  *)
(* no getData refresh) since the previous call of that getter began,       *)
(* issues no bus transfer and returns the value that previous call         *)
(* returned, which is still the cached value.                              *)
C1_SecondCallCached ==
    /\ (Done("getTemperature") /\ pre.evT = "getter") =>
          (bus = << >> /\ ret.t = pre.lastT /\ temperature = pre.lastT)
    /\ (Done("getHumidity") /\ pre.evH = "getter") =>
          (bus = << >> /\ ret.h = pre.lastH /\ humidity = pre.lastH)

C1_Witness ==
    /\ Done("getTemperature") /\ pre.evT = "getter"
    /\ bus = << >> /\ ~ret.t.nan /\ ret.t = pre.lastT

(* C2: construction leaves both flags safe and no timer pending, and the   *)
(* first getTemperature() / getHumidity() after it, before any timer of    *)
(* that quantity has fired, issues exactly one trigger write.              *)
C2_FirstCallMeasures ==
    /\ op = "construct" =>
          (selfHeatTemperature /\ selfHeatHumidity /\ ~tPending /\ ~hPending)
    /\ (Done("getTemperature") /\ pre.evT = "none") =>
          (pre.selfT /\ Cardinality(Triggers(SHT_TRIG_TEMP)) = 1)
    /\ (Done("getHumidity") /\ pre.evH = "none") =>
          (pre.selfH /\ Cardinality(Triggers(SHT_TRIG_RH)) = 1)

C2_Witness ==
    /\ Done("getHumidity") /\ pre.evH = "none" /\ ev.T = "getter"
    /\ Cardinality(Triggers(SHT_TRIG_RH)) = 1
    /\ ~temperature.nan

(* C3: when the last thing that happened to a quantity is that its timer   *)
(* fired, the next getter call of that quantity issues a trigger write     *)
(* and both caches and returns what that measurement yielded.              *)
C3_AfterFireMeasures ==
    /\ (Done("getTemperature") /\ pre.evT = "fire") =>
          /\ Cardinality(Triggers(SHT_TRIG_TEMP)) = 1
          /\ temperature = OnBusTemperature /\ ret.t = OnBusTemperature
    /\ (Done("getHumidity") /\ pre.evH = "fire") =>
          /\ Cardinality(Triggers(SHT_TRIG_RH)) = 1
          /\ humidity = OnBusHumidity /\ ret.h = OnBusHumidity

C3_Witness ==
    /\ Done("getTemperature") /\ pre.evT = "fire"
    /\ ~pre.temp.nan /\ ~temperature.nan /\ temperature # pre.temp

(* C4: a getData() entered while a flag is not safe is over in that one    *)
(* step: no bus transfer, flags, timers and cached values unchanged, the   *)
(* cached pair returned.  A getData() entered with both flags safe issues  *)
(* the temperature trigger, then the humidity trigger, one of each, and    *)
(* caches and returns what the two measurements yielded.                   *)
C4_StaleStep ==
    (/\ pc = "idle" /\ op' = "getData" /\ ev' = ev
     /\ ~(selfHeatTemperature /\ selfHeatHumidity))
       => /\ pc' = "idle"
          /\ bus' = << >>
          /\ UNCHANGED prog
          /\ ret' = [t |-> temperature, h |-> humidity, ok |-> FALSE]

C4_FreshPair ==
    (Done("getData") /\ pre.selfT /\ pre.selfH) =>
        /\ Cardinality(Triggers(SHT_TRIG_TEMP)) = 1
        /\ Cardinality(Triggers(SHT_TRIG_RH)) = 1
        /\ \A i \in Triggers(SHT_TRIG_TEMP), j \in Triggers(SHT_TRIG_RH) : i < j
        /\ \A i \in DOMAIN bus :
              bus[i].kind = "W" =>
                  (IsTrigger(i, SHT_TRIG_TEMP) \/ IsTrigger(i, SHT_TRIG_RH))
        /\ temperature = OnBusTemperature /\ ret.t = OnBusTemperature
        /\ humidity = OnBusHumidity /\ ret.h = OnBusHumidity

(* C4: every step is a getData() stale step as described or no such      *)
(* step, and every returned getData() that found both flags safe has      *)
(* measured temperature, then humidity, and returned that pair.            *)
C4_GetData == [][C4_StaleStep]_vars /\ [](C4_FreshPair)

C4_Witness ==
    /\ Done("getData") /\ pre.selfT /\ pre.selfH
    /\ Len(bus) = 4
    /\ ~pre.temp.nan /\ ~ret.t.nan /\ ret.t # pre.temp /\ ~ret.h.nan

(* C5: once a good value is cached, a call whose measurement fails         *)
(* returns that value and leaves it in the cache.                          *)
C5_LastGoodRetained ==
    /\ (/\ Done("getTemperature") \/ Done("getData")
        /\ Failed(SHT_TRIG_TEMP) /\ ~pre.temp.nan)
          => (temperature = pre.temp /\ ret.t = pre.temp)
    /\ (/\ Done("getHumidity") \/ Done("getData")
        /\ Failed(SHT_TRIG_RH) /\ ~pre.hum.nan)
          => (humidity = pre.hum /\ ret.h = pre.hum)

(* The code's behaviour on that input: the failed call caches and returns  *)
(* NAN over a good value.                                                  *)
C5_Witness ==
    /\ Done("getTemperature") /\ Failed(SHT_TRIG_TEMP)
    /\ ~pre.temp.nan /\ temperature = NAN /\ ret.t = NAN

(* C6: after a call whose measurement of a quantity fails, the flag of     *)
(* that quantity is safe and its timer is not armed.                       *)
C6_FailureLeavesSafe ==
    /\ (/\ Done("getTemperature") \/ Done("getData")
        /\ Failed(SHT_TRIG_TEMP))
          => (selfHeatTemperature /\ ~tPending)
    /\ (/\ Done("getHumidity") \/ Done("getData")
        /\ Failed(SHT_TRIG_RH))
          => (selfHeatHumidity /\ ~hPending)

(* The code's behaviour on that input: after the failed call the flag is   *)
(* not safe and the Timeout is pending.                                    *)
C6_Witness ==
    /\ Done("getTemperature") /\ Failed(SHT_TRIG_TEMP)
    /\ ~selfHeatTemperature /\ tPending

(* C7: on the bus every read directly follows an acknowledged trigger      *)
(* write of the same call, so a trigger write that is not acknowledged is  *)
(* followed by no read; the measurement then yields NAN.                   *)
C7_WriteBeforeRead ==
    /\ \A i \in DOMAIN bus :
          bus[i].kind = "R" =>
              /\ i > 1
              /\ IsTrigger(i - 1, SHT_TRIG_TEMP) \/ IsTrigger(i - 1, SHT_TRIG_RH)
              /\ bus[i - 1].ack
    /\ (/\ pc \in {"gT_store", "rD_storeT", "gH_store", "rD_storeH"}
        /\ ~bus[Len(bus)].ack)
          => res = NAN
    /\ (Done("getTemperature") /\ bus # << >> /\ ~bus[1].ack)
          => (Len(bus) = 1 /\ ret.t = NAN)
    /\ (Done("getHumidity") /\ bus # << >> /\ ~bus[1].ack)
          => (Len(bus) = 1 /\ ret.h = NAN)

C7_Witness ==
    /\ Done("getData") /\ Len(bus) = 3
    /\ ~bus[1].ack /\ bus[2].kind = "W" /\ bus[3].kind = "R"
    /\ ret.t = NAN

(* C8: waitSafeHeat() has returned only in states where both flags are     *)
(* safe, and a getData() entered next performs both measurements and       *)
(* returns their results.                                                  *)
C8_WaitThenFresh ==
    /\ Done("waitSafeHeat") => (selfHeatTemperature /\ selfHeatHumidity)
    /\ (Done("getData") /\ pre.afterWait) =>
          /\ pre.selfT /\ pre.selfH
          /\ Cardinality(Triggers(SHT_TRIG_TEMP)) = 1
          /\ Cardinality(Triggers(SHT_TRIG_RH)) = 1
          /\ \A i \in Triggers(SHT_TRIG_TEMP), j \in Triggers(SHT_TRIG_RH) : i < j
          /\ ret.t = OnBusTemperature /\ ret.h = OnBusHumidity

C8_Witness ==
    /\ Done("getData") /\ pre.afterWait
    /\ pre.evT = "fire" /\ pre.evH = "fire"
    /\ ~pre.temp.nan /\ ~ret.t.nan /\ ret.t # pre.temp

(* C9: a safe flag means no pending timer for that quantity, and a timer   *)
(* is never attached while it is pending.                                  *)
C9_SafeMeansElapsed ==
    /\ selfHeatTemperature => ~tPending
    /\ selfHeatHumidity => ~hPending
    /\ pc \in {"gT_attach", "gD_attachT"} => ~tPending
    /\ pc \in {"gH_attach", "gD_attachH"} => ~hPending

C9_Witness ==
    /\ selfHeatTemperature /\ ev.T = "fire" /\ ~tPending
    /\ ~selfHeatHumidity /\ hPending

(* C10 as stated: a user-register write on the bus carries one of the four *)
(* precision codes, and setPrecision() with any other argument issues no   *)
(* write and returns false.                                                *)
C10_InvalidRejected ==
    /\ \A i \in DOMAIN bus :
          (bus[i].kind = "W" /\ bus[i].data[1] = SHT_WRITE_REG)
              => bus[i].data[2] \in enum_sht_prec
    /\ (Done("setPrecision") /\ pre.arg \notin enum_sht_prec)
          => (bus = << >> /\ ~ret.ok)

(* C11: a read that is not acknowledged is retried, so a measurement has   *)
(* reported failure on the read only after at least two read attempts.     *)
C11_NackRetried ==
    (/\ pc \in {"gT_store", "rD_storeT", "gH_store", "rD_storeH"}
     /\ bus[Len(bus)].kind = "R" /\ ~bus[Len(bus)].ack)
       => (Len(bus) >= 3 /\ bus[Len(bus) - 1].kind = "R")

(* The code's behaviour on that input: one non-acknowledged read, and the  *)
(* measurement yields NAN.                                                 *)
C11_Witness ==
    /\ pc = "gT_store" /\ Len(bus) = 2
    /\ bus[1].ack /\ bus[2].kind = "R" /\ ~bus[2].ack /\ res = NAN

(* Scaled value (value * 65536 * 100) of a number given in hundredths. *)
Hundredths(n) == n * 65536

(* C12 as stated: every acknowledged read decodes to a temperature in      *)
(* [-40, 125] degrees C and a humidity in [0, 100] %RH.                    *)
C12_InPhysicalRange ==
    /\ (Done("getTemperature") /\ ~ret.t.nan) =>
          (Hundredths(-4000) <= ret.t.v /\ ret.t.v <= Hundredths(12500))
    /\ (Done("getHumidity") /\ ~ret.h.nan) =>
          (Hundredths(0) <= ret.h.v /\ ret.h.v <= Hundredths(10000))

(* C12 amended: every acknowledged read decodes, unclamped, to a           *)
(* temperature in [-46.85, 128.86] degrees C and a humidity in             *)
(* [-6.00, 119.00] %RH.                                                    *)
C12_InTransferRange ==
    /\ (Done("getTemperature") /\ ~ret.t.nan) =>
          (Hundredths(-4685) <= ret.t.v /\ ret.t.v <= Hundredths(12886))
    /\ (Done("getHumidity") /\ ~ret.h.nan) =>
          (Hundredths(-600) <= ret.h.v /\ ret.h.v <= Hundredths(11900))

C12_Witness ==
    /\ Done("getHumidity") /\ ~ret.h.nan
    /\ bus[2].data[1] = 0 /\ bus[2].data[2] = 3
    /\ ret.h.v = Hundredths(-600)

(* The distance of a scaled value from a number given in hundredths is at  *)
(* most 0.1.                                                               *)
Within01(x, n) ==
    /\ x.nan = FALSE
    /\ x.v - Hundredths(n) <= Hundredths(10)
    /\ Hundredths(n) - x.v <= Hundredths(10)

(* The call read the data bytes 0xFF 0xFF in an acknowledged read. *)
ReadAllOnes ==
    /\ Len(bus) = 2 /\ AnsweredAt(1)
    /\ bus[2].data[1] = 255 /\ bus[2].data[2] = 255

(* C13 as stated: the data bytes 0xFF 0xFF decode to a temperature within  *)
(* 0.1 of 173.72 degrees C and a humidity within 0.1 of 118.95 %RH.        *)
C13_AllOnesAsStated ==
    /\ (Done("getTemperature") /\ ReadAllOnes) => Within01(ret.t, 17372)
    /\ (Done("getHumidity") /\ ReadAllOnes) => Within01(ret.h, 11895)

(* C13 amended: the data bytes 0xFF 0xFF decode, unclamped, to a           *)
(* temperature within 0.1 of 128.86 degrees C and a humidity within 0.1    *)
(* of 118.95 %RH.                                                          *)
C13_AllOnes ==
    /\ (Done("getTemperature") /\ ReadAllOnes) => Within01(ret.t, 12886)
    /\ (Done("getHumidity") /\ ReadAllOnes) => Within01(ret.h, 11895)

C13_Witness ==
    /\ Done("getTemperature") /\ ReadAllOnes
    /\ ret.t.v > Hundredths(12500)

(* The reference transfer functions on the data bytes b0, b1: the word     *)
(* b0 * 256 + b1 with its low two bits cleared, in the affine formulas.    *)
RefWord(b0, b1) == (b0 * 256 + b1) - ((b0 * 256 + b1) % 4)

RefTemperature(b0, b1) == Num(17572 * RefWord(b0, b1) - 4685 * 65536)

RefHumidity(b0, b1) == Num(12500 * RefWord(b0, b1) - 600 * 65536)

(* C20: an acknowledged read of the bytes b0, b1, ck yields the reference  *)
(* transfer function of b0, b1; the same value is decoded from every       *)
(* triple that differs only in the two status bits or in the checksum.     *)
C20_TransferFunction ==
    /\ (Done("getTemperature") /\ Len(bus) = 2 /\ AnsweredAt(1)) =>
          LET rx == bus[2].data IN
          /\ ret.t = RefTemperature(rx[1], rx[2])
          /\ temperature = ret.t
          /\ \A k \in 0..3, ck \in {0, 255} :
                DecodeTemperature(<<rx[1], rx[2] - (rx[2] % 4) + k, ck>>) = ret.t
    /\ (Done("getHumidity") /\ Len(bus) = 2 /\ AnsweredAt(1)) =>
          LET rx == bus[2].data IN
          /\ ret.h = RefHumidity(rx[1], rx[2])
          /\ humidity = ret.h
          /\ \A k \in 0..3, ck \in {0, 255} :
                DecodeHumidity(<<rx[1], rx[2] - (rx[2] % 4) + k, ck>>) = ret.h

C20_Witness ==
    /\ Done("getTemperature") /\ Len(bus) = 2 /\ AnsweredAt(1)
    /\ bus[2].data = <<99, 131, 255>>
    /\ ret.t = RefTemperature(99, 128)

(* A step in which the temperature (humidity) Timeout fires: the only      *)
(* steps that record "fire" for the quantity.                              *)
FiresT == ev.T # "fire" /\ ev'.T = "fire"

FiresH == ev.H # "fire" /\ ev'.H = "fire"

C14_StepT ==
    FiresT => /\ tPending /\ ~tPending'
              /\ selfHeatTemperature' = TRUE
              /\ UNCHANGED << selfHeatHumidity, temperature, humidity, hPending,
                              pc, res, op, bus, ret >>

C14_StepH ==
    FiresH => /\ hPending /\ ~hPending'
              /\ selfHeatHumidity' = TRUE
              /\ UNCHANGED << selfHeatTemperature, temperature, humidity, tPending,
                              pc, res, op, bus, ret >>

(* A pending Timeout has not fired since it was attached. *)
C14_PendingNotFired ==
    /\ tPending => ev.T # "fire"
    /\ hPending => ev.H # "fire"

(* C14: a firing Timeout sets its own quantity's flag and nothing else of  *)
(* the object: the position of the application thread, the bus log, the    *)
(* cached values, the other flag and the other Timeout are unchanged, and  *)
(* its own one-shot Timeout, consumed by the firing, is not attached       *)
(* again; every firing is such a step.                                     *)
C14_CallbackFrame == [][C14_StepT /\ C14_StepH]_vars /\ [](C14_PendingNotFired)

C14_Witness ==
    /\ op = "getData" /\ pc = "rH_write"
    /\ ev.T = "fire" /\ selfHeatTemperature /\ ~tPending
    /\ ~selfHeatHumidity /\ hPending /\ Len(bus) = 2

C15_StepT ==
    (op' = "getTemperature" /\ ~FiresH /\ ev'.H = ev.H) =>
        UNCHANGED << selfHeatHumidity, hPending, humidity >>

C15_StepH ==
    (op' = "getHumidity" /\ ~FiresT /\ ev'.T = ev.T) =>
        UNCHANGED << selfHeatTemperature, tPending, temperature >>

C15_OwnFlagDecides ==
    /\ op = "getTemperature" => Triggers(SHT_TRIG_RH) = {}
    /\ op = "getHumidity" => Triggers(SHT_TRIG_TEMP) = {}
    /\ Done("getTemperature") =>
          Cardinality(Triggers(SHT_TRIG_TEMP)) = (IF pre.selfT THEN 1 ELSE 0)
    /\ Done("getHumidity") =>
          Cardinality(Triggers(SHT_TRIG_RH)) = (IF pre.selfH THEN 1 ELSE 0)

(* C15: no step of getTemperature() changes the humidity flag, the         *)
(* humidity Timeout or the cached humidity, and none of getHumidity()      *)
(* changes the temperature ones; a getter issues no trigger of the other   *)
(* quantity, and issues its own trigger exactly when its own flag is set   *)
(* at the call, whatever the other flag is.                                *)
C15_Independent == [][C15_StepT /\ C15_StepH]_vars /\ [](C15_OwnFlagDecides)

C15_Witness ==
    /\ Done("getTemperature") /\ pre.selfT /\ ~pre.selfH
    /\ Cardinality(Triggers(SHT_TRIG_TEMP)) = 1
    /\ ~selfHeatHumidity /\ hPending /\ ~ret.t.nan

C17_Step ==
    (op' \in {"setPrecision", "softReset"} /\ ~FiresT /\ ~FiresH /\ ev' = ev) =>
        UNCHANGED prog

C17_OneWrite ==
    /\ op = "setPrecision" =>
          /\ Len(bus) <= 1
          /\ pc \in {"sP_wait", "idle"} => Len(bus) = 1
          /\ pc = "sP_wait" => bus[1].ack
    /\ Done("setPrecision") =>
          bus = << Write(<<SHT_WRITE_REG, pre.arg>>, ret.ok) >>
    /\ op = "softReset" =>
          /\ Len(bus) <= 1
          /\ pc \in {"sR_wait", "idle"} => Len(bus) = 1
          /\ pc = "sR_wait" => bus[1].ack
    /\ Done("softReset") =>
          bus = << Write(<<SHT_SOFT_RESET>>, ret.ok) >>

(* C17: no statement of setPrecision() or softReset() changes the cached   *)
(* values, the flags or the Timeouts, acknowledged or not (a flag that     *)
(* changes during the call is set by a Timeout callback firing in it);     *)
(* the bus log of the call is the single write 0xE6, code (resp. 0xFE),    *)
(* and the call returns true exactly when that write was acknowledged.     *)
C17_ConfigFrame == [][C17_Step]_vars /\ [](C17_OneWrite)

C17_Witness ==
    /\ op = "setPrecision" /\ pc = "sP_wait" /\ pre.arg = SHT_PREC_RH08T12
    /\ bus = << Write(<<SHT_WRITE_REG, SHT_PREC_RH08T12>>, TRUE) >>
    /\ ~pre.selfT /\ selfHeatTemperature /\ ev.T = "fire"
    /\ temperature = pre.temp /\ ~temperature.nan

(* C16 as stated: the values of the pair getData() returns were both       *)
(* stored by the same getData() refresh, or are both the initial ones.     *)
C16_SameEpoch ==
    Done("getData") => (origin.T = origin.H /\ origin.T # "getter")

C16_StaleStep ==
    (/\ pc = "idle" /\ op' = "getData" /\ ~FiresT /\ ~FiresH /\ ev' = ev
     /\ ~(selfHeatTemperature /\ selfHeatHumidity))
       => /\ origin' = origin
          /\ ret'.t = temperature /\ ret'.h = humidity

C16_BothOrNone ==
    /\ (Done("getData") /\ pre.selfT /\ pre.selfH) =>
          /\ origin = [T |-> "refresh", H |-> "refresh"]
          /\ ret.t = temperature /\ ret.h = humidity
    /\ (Done("getData") /\ ~(pre.selfT /\ pre.selfH)) =>
          /\ bus = << >>
          /\ ret.t = pre.temp /\ ret.h = pre.hum
    /\ (Done("getData") /\ origin.T # origin.H) =>
          /\ bus = << >>
          /\ "getter" \in {origin.T, origin.H}

(* C16 amended: getData() never refreshes one quantity without the other.  *)
(* A call that finds both flags set stores and returns two values it       *)
(* measured itself; any other call issues no transfer and returns the      *)
(* cached pair as it is, whatever stored its two values.  A returned pair  *)
(* whose values have different origins is a cached pair of which a         *)
(* single-quantity getter stored one value.                                *)
C16_RefreshBothOrNone == [][C16_StaleStep]_vars /\ [](C16_BothOrNone)

C16_Witness ==
    /\ Done("getData") /\ bus = << >>
    /\ origin = [T |-> "getter", H |-> "refresh"]
    /\ ~ret.t.nan /\ ~ret.h.nan /\ ret.t # ret.h

Measuring == op \in {"getTemperature", "getHumidity", "getData"}

ReadsOf(code) == { i \in Triggers(code) : i < Len(bus) /\ bus[i + 1].kind = "R" }

(* The transfers of a measurement call: at most one trigger write per      *)
(* quantity, at most one read after it, nothing else.                      *)
C18_Bounded ==
    Measuring =>
        /\ Cardinality(Triggers(SHT_TRIG_TEMP)) <= 1
        /\ Cardinality(Triggers(SHT_TRIG_RH)) <= 1
        /\ Cardinality({ i \in DOMAIN bus : bus[i].kind = "R" })
              = Cardinality(ReadsOf(SHT_TRIG_TEMP)) + Cardinality(ReadsOf(SHT_TRIG_RH))
        /\ Len(bus) <= (IF op = "getData" THEN 4 ELSE 2)
        /\ \A i \in DOMAIN bus :
              bus[i].kind = "W" =>
                  (IsTrigger(i, SHT_TRIG_TEMP) \/ IsTrigger(i, SHT_TRIG_RH))

(* C18: a measurement call issues at most one trigger write and one read   *)
(* per quantity, and, the thread running, it returns whatever the device   *)
(* answers to each transfer.                                               *)
C18_Terminates ==
    /\ [](C18_Bounded)
    /\ ((Measuring /\ pc # "idle") ~> (Measuring /\ pc = "idle"))

C18_Witness ==
    /\ Done("getData") /\ pre.selfT /\ pre.selfH
    /\ bus = << Write(<<SHT_TRIG_TEMP>>, FALSE), Write(<<SHT_TRIG_RH>>, FALSE) >>
    /\ ret.t.nan /\ ret.h.nan

(* A flag that is not set has its Timeout pending, or the thread is at     *)
(* the attach statement that follows the clearing of the flag.             *)
C19_Armed ==
    /\ ~selfHeatTemperature => (tPending \/ pc \in {"gT_attach", "gD_attachT"})
    /\ ~selfHeatHumidity =>
          (hPending \/ pc \in {"gH_attach", "gD_attachT", "gD_attachH"})

(* C19: every unset flag has a Timeout that will set it, and, every        *)
(* pending Timeout firing eventually, a waitSafeHeat() that has been       *)
(* entered returns.                                                        *)
C19_WaitReturns ==
    /\ [](C19_Armed)
    /\ ((pc = "wSH_while") ~> Done("waitSafeHeat"))

C19_Witness ==
    /\ Done("waitSafeHeat") /\ ~pre.selfT /\ ~pre.selfH
    /\ selfHeatTemperature /\ selfHeatHumidity
    /\ ev = [T |-> "fire", H |-> "fire"]

=============================================================================
